---- MODULE Spec2Model ----
(***************************************************************************)
(* The job orchestration engine of runner/app/workers/job_worker.py: the   *)
(* in-memory job registry, its lifecycle state machine, the progress/phase *)
(* bridge, cooperative cancellation and the evaluation deadline, together  *)
(* with the batch loop of run_flow_spec_tests that polls should_stop().    *)
(*                                                                         *)
(* Granularity.  Every coroutine of the module runs on one asyncio event   *)
(* loop, and no holder of jobs_lock awaits while holding it, so each       *)
(* "async with jobs_lock" block is one atomic step and a coroutine is only *)
(* interleaved with others at an await that really suspends (the unit of   *)
(* work).  The evaluation runners execute on a worker thread               *)
(* (asyncio.to_thread); what they post through on_progress / on_phase      *)
(* reaches the loop as queued callbacks, modelled by the FIFO inbox.       *)
(***************************************************************************)
EXTENDS Integers, Sequences, FiniteSets, TLC

\* ---------------------------------------------------------------- bounds
MaxJobs  == 2        \* jobs created in one run of the process
MaxTime  == 2        \* readings of the wall clock are 1..MaxTime
MaxTests == 3        \* test cases in a run_tests payload
MaxInbox == 2        \* bridge callbacks queued per job and not yet run

\* ------------------------------------------------------- program values
JobKind == {"scan", "run_tests", "eval_baseline", "eval_advanced",
            "eval_compare", "report_pdf"}

JobStatus == {"queued", "running", "completed", "failed", "timeout", "canceled"}

EvalKinds == {"eval_baseline", "eval_advanced", "eval_compare"}

Terminal == {"completed", "failed", "timeout", "canceled"}

\* None for a timestamp, for the phase, and for result / error.
NoTime  == 0
NoPhase == "none"
None    == [none |-> TRUE]

JobError(code, message, details) ==
    [code |-> code, message |-> message, details |-> details]

\* A record that is born started: started_at stamped at creation.
job_state_started(job_id, kind, created_at) ==
    [job_id |-> job_id, kind |-> kind, status |-> "queued", phase |-> NoPhase,
     progress |-> 0, created_at |-> created_at, started_at |-> created_at,
     finished_at |-> NoTime, result |-> None, error |-> None]

JobState(job_id, kind, created_at) ==
    [job_id |-> job_id, kind |-> kind, status |-> "queued", phase |-> NoPhase,
     progress |-> 0, created_at |-> created_at, started_at |-> NoTime,
     finished_at |-> NoTime, result |-> None, error |-> None]

\* ------------------------------------------------------------- payloads
\* One field per schema decides validity in the model: max_pages for
\* ScanPayload, sample_size for EvalPayload, and the length of tests and
\* batch_size for RunTestsPayload.
BatchSizes == {0, 1, 2}

Payloads(kind) ==
    IF kind = "scan" THEN {[max_pages |-> m] : m \in {0, 30}}
    ELSE IF kind \in EvalKinds THEN {[sample_size |-> s] : s \in {3, 12}}
    ELSE IF kind = "run_tests"
         THEN {[tests |-> n, batch_size |-> b] : n \in 0..MaxTests, b \in BatchSizes}
    ELSE {[tests |-> 0, batch_size |-> 0]}

ScanPayloadValid(p) == p.max_pages >= 1 /\ p.max_pages <= 120

EvalPayloadValid(p) == p.sample_size >= 4 /\ p.sample_size <= 40

RunTestsPayloadValid(p) ==
    p.tests >= 1 /\ p.batch_size >= 1 /\ p.batch_size <= 8

\* _to_json_safe keeps None, str, int, float, bool, and rebuilds lists and
\* dicts with string keys element by element; every result the model builds
\* is made of exactly those, so the conversion returns an equal value.
ToJsonSafe(value) == value

\* result_payload.get("canceled"), as a truth value.
ResultCanceled(r) == "canceled" \in DOMAIN r /\ r.canceled

VARIABLES
    jobs,        \* the registry: job id -> JobState, ids 1..Len
    requests,    \* the CreateJobRequest each _run_job task was created with
    pc,          \* where each _run_job task stands
    uow,         \* the local state of each unit of work
    inbox,       \* per job, the bridge coroutines scheduled and not yet run
    playwright,  \* whether async_playwright was importable
    now,         \* the wall clock
    resp,        \* the last call a client made and what it was answered
    cancel_point,\* history: per job, how many of its tests had finished
                 \* when cancel_job canceled it (-1: it did not)
    lock,        \* jobs_lock: "free", or the task that holds it
    mapped       \* the last call of a callback built by _map_progress

vars == <<jobs, requests, pc, uow, inbox, playwright, now, resp, cancel_point,
          lock, mapped>>

Ids == DOMAIN jobs

utcnow == now

Min(a, b) == IF a <= b THEN a ELSE b

Max(a, b) == IF a >= b THEN a ELSE b

\* ------------------------------------------------- the scaling helper
\* The pairs (clipped, span) of 0..100 x 0..100 for which the product
\* (clipped / 100) * span, computed in binary floating point as line 422
\* does, comes out just below the whole number clipped * span / 100:
\* clipped / 100 is rounded down there and int() truncates the product.
RoundsBelow == {<<58, 50>>, <<70, 90>>, <<29, 100>>, <<57, 100>>, <<58, 100>>}

\* int((clipped / 100) * span), line 422, for clipped and span in 0..100.
scale(clipped, span) ==
    ((clipped * span) \div 100) - (IF <<clipped, span>> \in RoundsBelow THEN 1 ELSE 0)

\* _map_progress, lines 408-424: the value the callback it returns hands
\* to on_progress when called with local_progress.
_map_progress(start, end, local_progress) ==
    LET safe_start == Max(0, Min(start, 100))
        safe_end   == Max(safe_start, Min(end, 100))
        span       == safe_end - safe_start
        clipped    == Max(0, Min(local_progress, 100))
    IN  safe_start + scale(clipped, span)

\* A callback built by _map_progress(on_progress, start, end) and not yet
\* called: nothing has been forwarded (-1).
Built(start, end) ==
    [start |-> start, end |-> end, local_progress |-> 0, forwarded |-> -1]

NoCall == Built(0, 0)

\* The ends of the sub-ranges and the local values a callback is tried on;
\* run_compare_eval uses the sub-ranges 5..49 and 50..95 (lines 614, 624).
MapPoints == {-10, 0, 5, 10, 49, 50, 95, 100, 110}

LocalInputs == -1..101

\* ------------------------------------------------------------ list_jobs
\* A filter that is not given (None; line 95 and 97 test for truth).
NoFilter == "any"

RECURSIVE sort_created_desc(_, _)
\* items.sort(key=created_at, reverse=True), line 99: a stable sort, so
\* records created at the same time keep the order they had.  ids is what
\* is left to insert, sorted what has been placed.
sort_created_desc(ids, sorted) ==
    IF ids = <<>> THEN sorted
    ELSE LET x == Head(ids)
             k == Cardinality({i \in 1..Len(sorted) : sorted[i].created_at >= x.created_at})
         IN sort_created_desc(Tail(ids),
                SubSeq(sorted, 1, k) \o <<x>> \o SubSeq(sorted, k + 1, Len(sorted)))

\* The slice taken from the other end of the list: items[-limit:].
slice_from_end(items, limit) ==
    SubSeq(items, Len(items) - Min(Max(limit, 0), Len(items)) + 1, Len(items))

\* items[:limit], line 100.
slice_to(items, limit) ==
    IF limit >= 0
    THEN SubSeq(items, 1, Min(limit, Len(items)))
    ELSE SubSeq(items, 1, Max(Len(items) + limit, 0))

\* -------------------------------------------- the registry's transitions
\* cancel_job without the test of line 67.
cancel_record_any_status(current, t) ==
    [current EXCEPT
        !.status = "canceled",
        !.phase = "canceled",
        !.finished_at = t,
        !.error = JobError("CANCELED_BY_USER", "Run tests canceled by user.", "none")]

\* cancel_job without the assignment of line 72.
cancel_record_no_stamp(current, t) ==
    IF current.status \in {"completed", "failed", "timeout", "canceled"}
    THEN current
    ELSE [current EXCEPT
             !.status = "canceled",
             !.phase = "canceled",
             !.error = JobError("CANCELED_BY_USER", "Run tests canceled by user.", "none")]

\* cancel_job with "canceled" missing from the set of line 67.
cancel_record_restamp(current, t) ==
    IF current.status \in {"completed", "failed", "timeout"}
    THEN current
    ELSE [current EXCEPT
             !.status = "canceled",
             !.phase = "canceled",
             !.finished_at = t,
             !.error = JobError("CANCELED_BY_USER", "Run tests canceled by user.", "none")]

\* cancel_job, lines 67-78: the record after the call.
cancel_record(current, t) ==
    IF current.status \in {"completed", "failed", "timeout", "canceled"}
    THEN current
    ELSE [current EXCEPT
             !.status = "canceled",
             !.phase = "canceled",
             !.finished_at = t,
             !.error = JobError("CANCELED_BY_USER", "Run tests canceled by user.", "none")]

\* _run_job without the test of lines 106-107.
run_start_record_unguarded(current, t) ==
    [current EXCEPT
        !.status = "running",
        !.phase = "initializing",
        !.started_at = t,
        !.progress = 5]

\* _run_job, lines 104-111: the first block under the lock.
run_start_record(current, t) ==
    IF current.status = "canceled"
    THEN current
    ELSE [current EXCEPT
             !.status = "running",
             !.phase = "initializing",
             !.started_at = t,
             !.progress = 5]

\* _run_job stamping finished_at again when it attaches the result to a
\* canceled job.
run_final_record_restamp(current, result_payload, t) ==
    IF current.status = "canceled"
    THEN [current EXCEPT
             !.finished_at = t,
             !.result = ToJsonSafe(result_payload),
             !.error = IF current.error = None
                       THEN JobError("CANCELED_BY_USER", "Run tests canceled by user.", "none")
                       ELSE current.error]
    ELSE IF ResultCanceled(result_payload)
    THEN [current EXCEPT
             !.status = "canceled",
             !.phase = "canceled",
             !.finished_at = t,
             !.result = ToJsonSafe(result_payload),
             !.error = JobError("CANCELED_BY_USER", "Run tests canceled by user.", "none")]
    ELSE [current EXCEPT
             !.status = "completed",
             !.phase = "completed",
             !.progress = 100,
             !.finished_at = t,
             !.result = ToJsonSafe(result_payload),
             !.error = None]

\* _run_job without the test of line 210.
run_final_record_completes(current, result_payload, t) ==
    IF ResultCanceled(result_payload)
    THEN [current EXCEPT
             !.status = "canceled",
             !.phase = "canceled",
             !.finished_at = t,
             !.result = ToJsonSafe(result_payload),
             !.error = JobError("CANCELED_BY_USER", "Run tests canceled by user.", "none")]
    ELSE [current EXCEPT
             !.status = "completed",
             !.phase = "completed",
             !.progress = 100,
             !.finished_at = t,
             !.result = ToJsonSafe(result_payload),
             !.error = None]

\* _run_job without the assignment of line 232.
run_final_record_stale_progress(current, result_payload, t) ==
    IF current.status = "canceled"
    THEN [current EXCEPT
             !.result = ToJsonSafe(result_payload),
             !.error = IF current.error = None
                       THEN JobError("CANCELED_BY_USER", "Run tests canceled by user.", "none")
                       ELSE current.error]
    ELSE IF ResultCanceled(result_payload)
    THEN [current EXCEPT
             !.status = "canceled",
             !.phase = "canceled",
             !.finished_at = t,
             !.result = ToJsonSafe(result_payload),
             !.error = JobError("CANCELED_BY_USER", "Run tests canceled by user.", "none")]
    ELSE [current EXCEPT
             !.status = "completed",
             !.phase = "completed",
             !.finished_at = t,
             !.result = ToJsonSafe(result_payload),
             !.error = None]

\* _run_job without the assignment of line 234.
run_final_record_no_result(current, result_payload, t) ==
    IF current.status = "canceled"
    THEN [current EXCEPT
             !.result = ToJsonSafe(result_payload),
             !.error = IF current.error = None
                       THEN JobError("CANCELED_BY_USER", "Run tests canceled by user.", "none")
                       ELSE current.error]
    ELSE IF ResultCanceled(result_payload)
    THEN [current EXCEPT
             !.status = "canceled",
             !.phase = "canceled",
             !.finished_at = t,
             !.result = ToJsonSafe(result_payload),
             !.error = JobError("CANCELED_BY_USER", "Run tests canceled by user.", "none")]
    ELSE [current EXCEPT
             !.status = "completed",
             !.phase = "completed",
             !.progress = 100,
             !.finished_at = t,
             !.error = None]

\* _run_job returning at line 210 without lines 211-217.
run_final_record_drops_result(current, result_payload, t) ==
    IF current.status = "canceled"
    THEN current
    ELSE IF ResultCanceled(result_payload)
    THEN [current EXCEPT
             !.status = "canceled",
             !.phase = "canceled",
             !.finished_at = t,
             !.result = ToJsonSafe(result_payload),
             !.error = JobError("CANCELED_BY_USER", "Run tests canceled by user.", "none")]
    ELSE [current EXCEPT
             !.status = "completed",
             !.phase = "completed",
             !.progress = 100,
             !.finished_at = t,
             !.result = ToJsonSafe(result_payload),
             !.error = None]

\* The final block without the test of line 219: a returned mapping that
\* says canceled completes the job all the same.
run_final_record_ignores_flag(current, result_payload, t) ==
    IF current.status = "canceled"
    THEN [current EXCEPT
             !.result = ToJsonSafe(result_payload),
             !.error = IF current.error = None
                       THEN JobError("CANCELED_BY_USER", "Run tests canceled by user.", "none")
                       ELSE current.error]
    ELSE [current EXCEPT
             !.status = "completed",
             !.phase = "completed",
             !.progress = 100,
             !.finished_at = t,
             !.result = ToJsonSafe(result_payload),
             !.error = None]

\* _run_job, lines 208-235: the block under the lock once the unit of work
\* has returned result_payload.
run_final_record(current, result_payload, t) ==
    IF current.status = "canceled"
    THEN [current EXCEPT
             !.result = ToJsonSafe(result_payload),
             !.error = IF current.error = None
                       THEN JobError("CANCELED_BY_USER", "Run tests canceled by user.", "none")
                       ELSE current.error]
    ELSE IF ResultCanceled(result_payload)
    THEN [current EXCEPT
             !.status = "canceled",
             !.phase = "canceled",
             !.finished_at = t,
             !.result = ToJsonSafe(result_payload),
             !.error = JobError("CANCELED_BY_USER", "Run tests canceled by user.", "none")]
    ELSE [current EXCEPT
             !.status = "completed",
             !.phase = "completed",
             !.progress = 100,
             !.finished_at = t,
             !.result = ToJsonSafe(result_payload),
             !.error = None]

\* _set_progress without the max of line 246.
set_progress_no_max(current, progress) ==
    IF current.status # "running"
    THEN current
    ELSE [current EXCEPT !.progress = Min(progress, 99)]

\* _set_progress without the min of line 246.
set_progress_no_clamp(current, progress) ==
    IF current.status # "running"
    THEN current
    ELSE [current EXCEPT !.progress = Max(current.progress, progress)]

\* _set_progress, lines 241-246.
_set_progress(current, progress) ==
    IF current.status # "running"
    THEN current
    ELSE [current EXCEPT !.progress = Max(current.progress, Min(progress, 99))]

\* _set_phase without the test of lines 252-253.
set_phase_unguarded(current, phase) ==
    [current EXCEPT !.phase = phase]

\* _set_phase, lines 249-254.
_set_phase(current, phase) ==
    IF current.status # "running"
    THEN current
    ELSE [current EXCEPT !.phase = phase]

\* _fail_job without the test of lines 260-261.
fail_job_unguarded(current, code, message, details, t) ==
    [current EXCEPT
        !.status = "failed",
        !.phase = "failed",
        !.finished_at = t,
        !.error = JobError(code, message, details)]

\* _fail_job without the assignment of line 262.
fail_job_keeps_status(current, code, message, details, t) ==
    IF current.status = "canceled"
    THEN current
    ELSE [current EXCEPT
             !.phase = "failed",
             !.finished_at = t,
             !.error = JobError(code, message, details)]

\* _fail_job, lines 257-266.
_fail_job(current, code, message, details, t) ==
    IF current.status = "canceled"
    THEN current
    ELSE [current EXCEPT
             !.status = "failed",
             !.phase = "failed",
             !.finished_at = t,
             !.error = JobError(code, message, details)]

\* _timeout_job recording the code of _fail_job's callers.
timeout_job_wrong_code(current, code, message, t) ==
    IF current.status = "canceled"
    THEN current
    ELSE [current EXCEPT
             !.status = "timeout",
             !.phase = "timeout",
             !.finished_at = t,
             !.error = JobError("JOB_FAILED", message, "none")]

\* _timeout_job without the assignment of line 276.
timeout_job_no_stamp(current, code, message, t) ==
    IF current.status = "canceled"
    THEN current
    ELSE [current EXCEPT
             !.status = "timeout",
             !.phase = "timeout",
             !.error = JobError(code, message, "none")]

\* _timeout_job, lines 269-277.
_timeout_job(current, code, message, t) ==
    IF current.status = "canceled"
    THEN current
    ELSE [current EXCEPT
             !.status = "timeout",
             !.phase = "timeout",
             !.finished_at = t,
             !.error = JobError(code, message, "none")]

\* The predicate handed to run_flow_spec_tests (line 203); it reads the
\* registry without taking the lock.
should_stop(job_id) == job_id \in Ids /\ jobs[job_id].status = "canceled"

\* ------------------------------------------------------ units of work
\* The local state of a unit of work.  stage: "idle" before it is invoked;
\* "launching", "batch", "closing" are the awaits of run_flow_spec_tests
\* (browser launch, the gather of one batch or one HTTP test, browser.close);
\* "busy" is scan_pages or an evaluation runner at work; "abandoned" is an
\* evaluation thread still running after wait_for gave up on it, "ended"
\* once it has finished; "returned" and "raised" are the two ways a unit of
\* work comes back to _run_job.
UowInit == [stage |-> "idle", results |-> <<>>, canceled |-> FALSE]

\* The progress values and phase labels a scan or an evaluation may post.
ProgressInputs == {-5, 50, 120}

PhaseInputs == {"dataset_generation", "retrieval"}

\* A returned mapping that says canceled whether or not should_stop() was
\* ever true.
tests_result_always_canceled(u, batch_size) ==
    [total |-> Len(u.results),
     batch_size |-> batch_size,
     canceled |-> TRUE,
     tests |-> u.results]

\* run_flow_spec_tests, lines 222-235: the returned mapping.  A test's
\* result is modelled by the test's id; url, duration_ms and the
\* passed / failed counts, which depend on the pages tested, are left out.
tests_result(u, batch_size) ==
    [total |-> Len(u.results),
     batch_size |-> batch_size,
     canceled |-> u.canceled,
     tests |-> u.results]

\* What scan_pages and the evaluation runners return: a mapping without a
\* "canceled" key.
ScanResult == [scan |-> "pages", prompt |-> "prompt"]

EvalResult(kind) == [metrics |-> "scores", config |-> kind]

\* How many tests one await of the loop runs: a batch with playwright
\* (line 212), one test in the HTTP fallback (line 201).
Width(job_id) == IF playwright THEN requests[job_id].payload.batch_size ELSE 1

\* The head of the loop noting the cancellation without leaving the loop.
loop_head_keeps_going(job_id, u) ==
    IF Len(u.results) >= requests[job_id].payload.tests
    THEN [u EXCEPT !.stage = "exit"]
    ELSE IF should_stop(job_id)
    THEN [u EXCEPT !.stage = "batch", !.canceled = TRUE]
    ELSE [u EXCEPT !.stage = "batch"]

\* The head of the loop asking should_stop() before it looks for tests
\* left to launch.
loop_head_asks_first(job_id, u) ==
    IF should_stop(job_id)
    THEN [u EXCEPT !.stage = "exit", !.canceled = TRUE]
    ELSE IF Len(u.results) >= requests[job_id].payload.tests
    THEN [u EXCEPT !.stage = "exit"]
    ELSE [u EXCEPT !.stage = "batch"]

\* run_flow_spec_tests, lines 197-200 and 208-212: the head of the loop.
\* It runs without suspension after the previous batch's results came in.
loop_head(job_id, u) ==
    IF Len(u.results) >= requests[job_id].payload.tests
    THEN [u EXCEPT !.stage = "exit"]
    ELSE IF should_stop(job_id)
    THEN [u EXCEPT !.stage = "exit", !.canceled = TRUE]
    ELSE [u EXCEPT !.stage = "batch"]

\* on_progress argument of lines 203 and 218.
tests_progress(done, total) == Min(95, (done * 100) \div total)

\* The event loop runs one coroutine at a time: nothing else runs on it
\* between the first block of _run_job and its first suspending await.
LoopIdle == \A j \in Ids : pc[j] # "dispatch"

Done(j, rec, u) ==
    /\ lock = "free"
    /\ jobs' = [jobs EXCEPT ![j] = rec]
    /\ pc' = [pc EXCEPT ![j] = "done"]
    /\ uow' = [uow EXCEPT ![j] = u]

\* The unit of work returned result_payload: _run_job goes on, without
\* suspension, to lines 208-235.
Return(j, u, result_payload) ==
    Done(j, run_final_record(jobs[j], result_payload, utcnow), [u EXCEPT !.stage = "returned"])

\* After the head of the loop: either a batch is awaited, or the loop is
\* left; then the browser is closed (an await) or, in the HTTP fallback,
\* the function returns at once.
Advance(j, u) ==
    IF u.stage = "exit"
    THEN IF playwright
         THEN /\ uow' = [uow EXCEPT ![j] = [u EXCEPT !.stage = "closing"]]
              /\ pc' = [pc EXCEPT ![j] = "work"]
              /\ UNCHANGED jobs
         ELSE Return(j, u, tests_result(u, requests[j].payload.batch_size))
    ELSE /\ uow' = [uow EXCEPT ![j] = u]
         /\ pc' = [pc EXCEPT ![j] = "work"]
         /\ UNCHANGED jobs

\* ------------------------------------------------------------- actions
Init ==
    /\ jobs = <<>>
    /\ requests = <<>>
    /\ pc = <<>>
    /\ uow = <<>>
    /\ inbox = <<>>
    /\ playwright \in BOOLEAN
    /\ now = 1
    /\ resp = [op |-> "none", answer |-> "none"]
    /\ cancel_point = <<>>
    /\ lock = "free"
    /\ mapped = NoCall

\* The wall clock advances.
Tick ==
    /\ now < MaxTime
    /\ now' = now + 1
    /\ UNCHANGED <<jobs, requests, pc, uow, inbox, playwright, resp, cancel_point, lock, mapped>>

\* What create_job returns to post_job (jobs.py, lines 12-14): the status
\* of the record it has just built.
create_answer(kind) == JobState(Len(jobs) + 1, kind, utcnow).status

\* create_job, lines 43-55 (uuid4 modelled as the next unused id).
create_job(kind, payload) ==
    /\ LoopIdle
    /\ lock = "free"
    /\ jobs' = Append(jobs, JobState(Len(jobs) + 1, kind, utcnow))
    /\ requests' = Append(requests, [kind |-> kind, payload |-> payload])
    /\ pc' = Append(pc, "start")
    /\ uow' = Append(uow, UowInit)
    /\ inbox' = Append(inbox, <<>>)
    /\ resp' = [op |-> "create", answer |-> create_answer(kind)]
    /\ cancel_point' = Append(cancel_point, -1)
    /\ UNCHANGED <<playwright, now, lock, mapped>>

\* cancel_job without the test of lines 64-65.
cancel_answer_any_kind(job_id) ==
    IF job_id \notin Ids THEN "not_found" ELSE "ok"

\* What a cancel request is answered with: cancel_job, lines 60-68, seen
\* through post_cancel_job (jobs.py, lines 30-43).
cancel_answer(job_id) ==
    IF job_id \notin Ids THEN "not_found"
    ELSE IF jobs[job_id].kind # "run_tests" THEN "invalid_operation"
    ELSE "ok"

\* cancel_job, lines 58-78.
cancel_job(job_id) ==
    /\ LoopIdle
    /\ lock = "free"
    /\ IF cancel_answer(job_id) = "ok"
       THEN jobs' = [jobs EXCEPT ![job_id] = cancel_record(@, utcnow)]
       ELSE UNCHANGED jobs
    /\ resp' = [op |-> "cancel", answer |-> cancel_answer(job_id)]
    /\ IF cancel_answer(job_id) = "ok" /\ cancel_record(jobs[job_id], utcnow) # jobs[job_id]
       THEN cancel_point' = [cancel_point EXCEPT ![job_id] = Len(uow[job_id].results)]
       ELSE UNCHANGED cancel_point
    /\ UNCHANGED <<requests, pc, uow, inbox, playwright, now, lock, mapped>>

\* A poll that finds only the records of jobs still under way, as if a
\* finished job were dropped from the registry.
get_answer_live_only(job_id) ==
    IF job_id \in Ids /\ jobs[job_id].status \in {"queued", "running"}
    THEN "ok" ELSE "not_found"

\* What a poll is answered with: get_job, lines 81-83, seen through
\* get_job_status (jobs.py, lines 18-25).
get_answer(job_id) == IF job_id \in Ids THEN "ok" ELSE "not_found"

\* get_job, lines 81-83: reads the registry, changes nothing.
get_job(job_id) ==
    /\ LoopIdle
    /\ lock = "free"
    /\ resp' = [op |-> "get", answer |-> get_answer(job_id)]
    /\ UNCHANGED <<jobs, requests, pc, uow, inbox, playwright, now, cancel_point, lock, mapped>>

\* The lock still held by the coroutine when the block of lines 104-111
\* is left, as if the body of _run_job were part of the block.
release_after_work(holder) == holder

\* jobs_lock once the "async with" block of lines 104-111 is left.
release(holder) == "free"

\* jobs_lock while list_jobs filters and sorts its snapshot, lines 94-99:
\* the block of lines 91-92 has been left.
list_sort_lock == "free"

\* jobs_lock while the should_stop lambda of line 203 reads the record:
\* the unit of work calls it (test_runner.py, lines 198 and 209) outside
\* every "async with jobs_lock" block.
should_stop_lock == "free"

\* list_jobs, lines 91-100: the records returned, newest first.
list_items(kind, status, limit) ==
    LET items == [i \in 1..Len(jobs) |-> jobs[i]]
        of_kind == IF kind # NoFilter
                   THEN SelectSeq(items, LAMBDA job : job.kind = kind)
                   ELSE items
        of_status == IF status # NoFilter
                     THEN SelectSeq(of_kind, LAMBDA job : job.status = status)
                     ELSE of_kind
    IN  slice_to(sort_created_desc(of_status, <<>>), limit)

\* What get_jobs answers (jobs.py, lines 46-52): the records, given here
\* by their job_id.
list_answer(kind, status, limit) ==
    [i \in 1..Len(list_items(kind, status, limit)) |->
        list_items(kind, status, limit)[i].job_id]

\* list_jobs, lines 86-100. The response is kept with the arguments of
\* the call it answers.
list_jobs(kind, status, limit) ==
    /\ LoopIdle
    /\ lock = "free"
    /\ resp' = [op |-> "list",
                request |-> [kind |-> kind, status |-> status, limit |-> limit],
                answer |-> list_answer(kind, status, limit)]
    /\ UNCHANGED <<jobs, requests, pc, uow, inbox, playwright, now, cancel_point, lock, mapped>>

\* _run_job taking up its job only when no other job is at work, as under
\* an admission control of one job at a time.
RunStart_waits_for_others(j) ==
    /\ LoopIdle
    /\ lock = "free"
    /\ pc[j] = "start"
    /\ \A other \in Ids : pc[other] # "work"
    /\ lock' = release("_run_job")
    /\ jobs' = [jobs EXCEPT ![j] = run_start_record(@, utcnow)]
    /\ pc' = [pc EXCEPT ![j] = IF jobs[j].status = "canceled" THEN "done" ELSE "dispatch"]
    /\ UNCHANGED <<requests, uow, inbox, playwright, now, resp, cancel_point, mapped>>

\* _run_job, lines 104-111.
RunStart(j) ==
    /\ LoopIdle
    /\ lock = "free"
    /\ pc[j] = "start"
    /\ lock' = release("_run_job")
    /\ jobs' = [jobs EXCEPT ![j] = run_start_record(@, utcnow)]
    /\ pc' = [pc EXCEPT ![j] = IF jobs[j].status = "canceled" THEN "done" ELSE "dispatch"]
    /\ UNCHANGED <<requests, uow, inbox, playwright, now, resp, cancel_point, mapped>>

PayloadValid(request) ==
    IF request.kind = "scan" THEN ScanPayloadValid(request.payload)
    ELSE IF request.kind \in EvalKinds THEN EvalPayloadValid(request.payload)
    ELSE RunTestsPayloadValid(request.payload)

\* A dispatcher without the else of lines 205-206: a kind that has no
\* branch is run like a scan.
Dispatch_runs_unknown_kind(j) ==
    /\ pc[j] = "dispatch"
    /\ LET request == requests[j] IN
       IF request.kind \in {"scan", "run_tests"} \cup EvalKinds /\ ~PayloadValid(request)
       THEN Done(j, _fail_job(jobs[j], "INVALID_INPUT", "Invalid job payload.", "errors", utcnow),
                 uow[j])
       ELSE IF request.kind = "run_tests"
       THEN IF playwright
            THEN Advance(j, [uow[j] EXCEPT !.stage = "launching"])
            ELSE Advance(j, loop_head(j, uow[j]))
       ELSE Advance(j, [uow[j] EXCEPT !.stage = "busy"])
    /\ UNCHANGED <<requests, inbox, playwright, now, resp, cancel_point, lock, mapped>>

\* _run_job, lines 113-206: validation of the payload and the call of the
\* unit of work, up to its first await.
Dispatch(j) ==
    /\ pc[j] = "dispatch"
    /\ LET request == requests[j] IN
       IF request.kind \notin {"scan", "run_tests"} \cup EvalKinds
       THEN Done(j, _fail_job(jobs[j], "JOB_FAILED", "Unsupported job kind", "none", utcnow),
                 uow[j])
       ELSE IF ~PayloadValid(request)
       THEN Done(j, _fail_job(jobs[j], "INVALID_INPUT", "Invalid job payload.", "errors", utcnow),
                 uow[j])
       ELSE IF request.kind = "run_tests"
       THEN IF playwright
            THEN Advance(j, [uow[j] EXCEPT !.stage = "launching"])
            ELSE Advance(j, loop_head(j, uow[j]))
       ELSE Advance(j, [uow[j] EXCEPT !.stage = "busy"])
    /\ UNCHANGED <<requests, inbox, playwright, now, resp, cancel_point, lock, mapped>>

\* run_flow_spec_tests, lines 205-209: the browser is up, the loop starts.
TestsBegin(j) ==
    /\ LoopIdle
    /\ pc[j] = "work"
    /\ uow[j].stage = "launching"
    /\ Advance(j, loop_head(j, uow[j]))
    /\ UNCHANGED <<requests, inbox, playwright, now, resp, cancel_point, lock, mapped>>

\* run_flow_spec_tests, lines 201-203 and 213-218: the awaited tests come
\* back, their results are appended, progress is posted, and the loop goes
\* to its next head.
BatchDone(j) ==
    /\ LoopIdle
    /\ pc[j] = "work"
    /\ uow[j].stage = "batch"
    /\ LET total == requests[j].payload.tests
           first == Len(uow[j].results) + 1
           last  == Min(Len(uow[j].results) + Width(j), total)
           batch_results == [i \in 1..(last - first + 1) |-> first + i - 1]
           u == [uow[j] EXCEPT !.results = @ \o batch_results]
       IN /\ inbox' = [inbox EXCEPT ![j] =
                         Append(@, [type |-> "progress",
                                    value |-> tests_progress(Len(u.results), total)])]
          /\ Advance(j, loop_head(j, u))
    /\ UNCHANGED <<requests, playwright, now, resp, cancel_point, lock, mapped>>

\* run_flow_spec_tests, lines 219-235: the browser is closed and the
\* function returns.
TestsClose(j) ==
    /\ LoopIdle
    /\ pc[j] = "work"
    /\ uow[j].stage = "closing"
    /\ Return(j, uow[j], tests_result(uow[j], requests[j].payload.batch_size))
    /\ UNCHANGED <<requests, inbox, playwright, now, resp, cancel_point, lock, mapped>>

\* on_progress, lines 116-117, called by scan_pages or by an evaluation
\* runner (also by a runner that wait_for has given up on).
PostProgress(j, value) ==
    /\ requests[j].kind = "scan" => LoopIdle
    /\ uow[j].stage \in {"busy", "abandoned"}
    /\ inbox' = [inbox EXCEPT ![j] = Append(@, [type |-> "progress", value |-> value])]
    /\ UNCHANGED <<jobs, requests, pc, uow, playwright, now, resp, cancel_point, lock, mapped>>

\* on_phase, lines 119-120, called by an evaluation runner.
PostPhase(j, phase) ==
    /\ requests[j].kind \in EvalKinds
    /\ uow[j].stage \in {"busy", "abandoned"}
    /\ inbox' = [inbox EXCEPT ![j] = Append(@, [type |-> "phase", phase |-> phase])]
    /\ UNCHANGED <<jobs, requests, pc, uow, playwright, now, resp, cancel_point, lock, mapped>>

\* The loop running the bridge coroutine scheduled last instead of first.
ApplyTick_newest_first(j) ==
    /\ LoopIdle
    /\ inbox[j] # <<>>
    /\ LET m == inbox[j][Len(inbox[j])] IN
       jobs' = [jobs EXCEPT ![j] = IF m.type = "progress"
                                   THEN _set_progress(@, m.value)
                                   ELSE _set_phase(@, m.phase)]
    /\ inbox' = [inbox EXCEPT ![j] = SubSeq(@, 1, Len(@) - 1)]
    /\ UNCHANGED <<requests, pc, uow, playwright, now, resp, cancel_point, lock, mapped>>

\* A tick written to every record of the registry, as if _set_progress
\* and _set_phase did not look the record up by job_id.
ApplyTick_every_job(j) ==
    /\ LoopIdle
    /\ lock = "free"
    /\ inbox[j] # <<>>
    /\ LET m == Head(inbox[j]) IN
       jobs' = [k \in 1..Len(jobs) |-> IF m.type = "progress"
                                       THEN _set_progress(jobs[k], m.value)
                                       ELSE _set_phase(jobs[k], m.phase)]
    /\ inbox' = [inbox EXCEPT ![j] = Tail(@)]
    /\ UNCHANGED <<requests, pc, uow, playwright, now, resp, cancel_point, lock, mapped>>

\* The coroutine scheduled by run_coroutine_threadsafe runs: _set_progress
\* or _set_phase.  The loop runs them in the order they were scheduled.
ApplyTick(j) ==
    /\ LoopIdle
    /\ lock = "free"
    /\ inbox[j] # <<>>
    /\ LET m == Head(inbox[j]) IN
       jobs' = [jobs EXCEPT ![j] = IF m.type = "progress"
                                   THEN _set_progress(@, m.value)
                                   ELSE _set_phase(@, m.phase)]
    /\ inbox' = [inbox EXCEPT ![j] = Tail(@)]
    /\ UNCHANGED <<requests, pc, uow, playwright, now, resp, cancel_point, lock, mapped>>

\* scan_pages or an evaluation runner returns before the deadline.
UnitReturns(j) ==
    /\ LoopIdle
    /\ pc[j] = "work"
    /\ uow[j].stage = "busy"
    /\ Return(j, uow[j], IF requests[j].kind = "scan" THEN ScanResult
                          ELSE EvalResult(requests[j].kind))
    /\ UNCHANGED <<requests, inbox, playwright, now, resp, cancel_point, lock, mapped>>

\* An exception that reaches the handlers of lines 184 and 237 also after
\* _run_job has recorded the end of the job.
UnitRaises_late(j, exc) ==
    /\ LoopIdle
    /\ pc[j] \in {"work", "done"}
    /\ IF requests[j].kind \in EvalKinds /\ exc = "TimeoutError"
       THEN Done(j, _timeout_job(jobs[j], "EVAL_TIMEOUT", "Evaluation exceeded 900 seconds.", utcnow),
                 [uow[j] EXCEPT !.stage = "raised"])
       ELSE Done(j, _fail_job(jobs[j], "JOB_FAILED", exc, "none", utcnow),
                 [uow[j] EXCEPT !.stage = "raised"])
    /\ UNCHANGED <<requests, inbox, playwright, now, resp, cancel_point, lock, mapped>>

\* The unit of work raises.  Lines 184-191 catch a TimeoutError coming out
\* of wait_for, whoever raised it; line 237 catches every other Exception.
UnitRaises(j, exc) ==
    /\ LoopIdle
    /\ pc[j] = "work"
    /\ IF requests[j].kind \in EvalKinds /\ exc = "TimeoutError"
       THEN Done(j, _timeout_job(jobs[j], "EVAL_TIMEOUT", "Evaluation exceeded 900 seconds.", utcnow),
                 [uow[j] EXCEPT !.stage = "raised"])
       ELSE Done(j, _fail_job(jobs[j], "JOB_FAILED", exc, "none", utcnow),
                 [uow[j] EXCEPT !.stage = "raised"])
    /\ UNCHANGED <<requests, inbox, playwright, now, resp, cancel_point, lock, mapped>>

\* A deadline around the unit of work of every kind.
DeadlineExpires_any_kind(j) ==
    /\ LoopIdle
    /\ pc[j] = "work"
    /\ uow[j].stage = "busy"
    /\ Done(j, _timeout_job(jobs[j], "EVAL_TIMEOUT", "Evaluation exceeded 900 seconds.", utcnow),
            [uow[j] EXCEPT !.stage = "abandoned"])
    /\ UNCHANGED <<requests, inbox, playwright, now, resp, cancel_point, lock, mapped>>

\* wait_for, lines 146-191: the deadline passes while the runner is still
\* at work; the thread is not stopped.
DeadlineExpires(j) ==
    /\ LoopIdle
    /\ pc[j] = "work"
    /\ requests[j].kind \in EvalKinds
    /\ uow[j].stage = "busy"
    /\ Done(j, _timeout_job(jobs[j], "EVAL_TIMEOUT", "Evaluation exceeded 900 seconds.", utcnow),
            [uow[j] EXCEPT !.stage = "abandoned"])
    /\ UNCHANGED <<requests, inbox, playwright, now, resp, cancel_point, lock, mapped>>

\* An abandoned evaluation thread finishes; what it returns or raises is
\* dropped with its cancelled future.
ThreadEnds(j) ==
    /\ uow[j].stage = "abandoned"
    /\ uow' = [uow EXCEPT ![j] = [@ EXCEPT !.stage = "ended"]]
    /\ UNCHANGED <<jobs, requests, pc, inbox, playwright, now, resp, cancel_point, lock, mapped>>

Exceptions == {"RuntimeError", "TimeoutError"}

\* Every request of the model, and one well-formed request per kind.
Requests ==
    UNION {{[kind |-> kind, payload |-> payload] : payload \in Payloads(kind)} : kind \in JobKind}

ValidRequests ==
    {r \in Requests : /\ r.kind # "report_pdf" => PayloadValid(r)
                      /\ r.kind = "run_tests" => /\ r.payload.tests = MaxTests
                                                 /\ r.payload.batch_size = 2}

\* The arguments list_jobs is called with: limit is 1..200 for get_jobs.
ListInputs ==
    {[kind |-> k, status |-> s, limit |-> l] :
        k \in {NoFilter, "run_tests"}, s \in {NoFilter, "running"}, l \in 1..MaxJobs}

\* With one job in the registry the kind filter and the limit decide
\* nothing: the status filter alone is varied.
OneJobFilters == {f \in ListInputs : f.kind = NoFilter /\ f.limit = 1}

\* One step of the process when at most cap jobs are submitted, the
\* requests are drawn from reqs, the units of work post the given values
\* and phases, at most room posted callbacks per job wait for the loop,
\* and list_jobs is called with the arguments of filters.
Step(cap, reqs, values, phases, room, filters) ==
    \/ Tick
    \/ \E f \in filters : list_jobs(f.kind, f.status, f.limit)
    \/ \E r \in reqs : Len(jobs) < cap /\ create_job(r.kind, r.payload)
    \/ \E job_id \in 1..(cap + 1) : cancel_job(job_id)
    \/ \E job_id \in 1..(cap + 1) : get_job(job_id)
    \/ \E j \in Ids : RunStart(j)
    \/ \E j \in Ids : Dispatch(j)
    \/ \E j \in Ids : TestsBegin(j)
    \/ \E j \in Ids : Len(inbox[j]) < room /\ BatchDone(j)
    \/ \E j \in Ids : TestsClose(j)
    \/ \E j \in Ids : \E value \in values : Len(inbox[j]) < room /\ PostProgress(j, value)
    \/ \E j \in Ids : \E phase \in phases : Len(inbox[j]) < room /\ PostPhase(j, phase)
    \/ \E j \in Ids : ApplyTick(j)
    \/ \E j \in Ids : UnitReturns(j)
    \/ \E j \in Ids : \E exc \in Exceptions : UnitRaises(j, exc)
    \/ \E j \in Ids : DeadlineExpires(j)
    \/ \E j \in Ids : ThreadEnds(j)

\* One job, every request and every posted value of the model.
Next == Step(1, Requests, ProgressInputs, PhaseInputs, MaxInbox, OneJobFilters)

Spec == Init /\ [][Next]_vars

\* MaxJobs jobs side by side, each one well-formed; the list is asked
\* for a kind no job has.
NextJobs == Step(MaxJobs, ValidRequests, {120}, {"retrieval"}, 1,
                 {[kind |-> "export", status |-> NoFilter, limit |-> 1]})

\* ... on a host where playwright is installed.
InitJobs == Init /\ playwright

SpecJobs == InitJobs /\ [][NextJobs]_vars

\* The scheduling the deadline claims rely on: the event loop runs a task
\* that is ready (the first block of _run_job and its dispatch), and the
\* timer of wait_for fires.
DeadlineFairness ==
    /\ WF_vars(\E j \in Ids : RunStart(j))
    /\ WF_vars(\E j \in Ids : Dispatch(j))
    /\ WF_vars(\E j \in Ids : DeadlineExpires(j))

SpecDeadline == Init /\ [][Next]_vars /\ DeadlineFairness

\* Two jobs side by side out of three requests: an evaluation, a run of
\* one test, and a scan whose payload fails validation.
PairRequests ==
    {[kind |-> "eval_baseline", payload |-> [sample_size |-> 12]],
     [kind |-> "run_tests", payload |-> [tests |-> 1, batch_size |-> 1]],
     [kind |-> "scan", payload |-> [max_pages |-> 0]]}

NextPair == Step(MaxJobs, PairRequests, {50}, {"retrieval"}, 1, ListInputs)

SpecPair == InitJobs /\ [][NextPair]_vars

\* The scheduling the start of a job relies on: the event loop runs each
\* task created by create_job, and goes on to its dispatch.
StartFairness ==
    /\ \A j \in 1..MaxJobs : WF_vars(j \in Ids /\ RunStart(j))
    /\ WF_vars(\E j \in Ids : Dispatch(j))

\* Two jobs side by side, each an evaluation or a run of one test.
NextStart == Step(MaxJobs, {r \in PairRequests : PayloadValid(r)}, {50}, {"retrieval"}, 1,
                  {[kind |-> "export", status |-> NoFilter, limit |-> 1]})

SpecStart == InitJobs /\ [][NextStart]_vars /\ StartFairness

\* The callback built by _map_progress is called with local_progress
\* (the function _mapped, lines 420-422).
MapCall(local_progress) ==
    /\ mapped' = [mapped EXCEPT
                     !.local_progress = local_progress,
                     !.forwarded = _map_progress(mapped.start, mapped.end, local_progress)]
    /\ UNCHANGED <<jobs, requests, pc, uow, inbox, playwright, now, resp, cancel_point, lock>>

NextMap == \E local_progress \in LocalInputs : MapCall(local_progress)

\* A process in which no job is submitted and a callback has been built
\* for some sub-range.
InitMap ==
    /\ jobs = <<>>
    /\ requests = <<>>
    /\ pc = <<>>
    /\ uow = <<>>
    /\ inbox = <<>>
    /\ playwright = TRUE
    /\ now = 1
    /\ resp = [op |-> "none", answer |-> "none"]
    /\ cancel_point = <<>>
    /\ lock = "free"
    /\ mapped \in {Built(start, end) : start \in MapPoints, end \in MapPoints}

SpecMap == InitMap /\ [][NextMap]_vars

\* Mappings a unit of work other than the shipped ones could hand back to
\* line 208: with a "canceled" entry that is true, and with one that is
\* false.
StrayResults ==
    {[scan |-> "pages", prompt |-> "prompt", canceled |-> flag] : flag \in BOOLEAN}

\* A scan or an evaluation whose unit of work returns result_payload
\* before the deadline: _run_job goes on to lines 208-235 with it.
UnitReturnsWith(j, result_payload) ==
    /\ LoopIdle
    /\ pc[j] = "work"
    /\ uow[j].stage = "busy"
    /\ Return(j, uow[j], result_payload)
    /\ UNCHANGED <<requests, inbox, playwright, now, resp, cancel_point, lock, mapped>>

\* One job whose unit of work may also return one of StrayResults.
NextUnit ==
    \/ Next
    \/ \E j \in Ids : \E result_payload \in StrayResults : UnitReturnsWith(j, result_payload)

SpecUnit == Init /\ [][NextUnit]_vars

\* ================================================================ claims
StatusTransitions ==
    {<<"queued", "running">>, <<"queued", "canceled">>,
     <<"running", "completed">>, <<"running", "failed">>,
     <<"running", "timeout">>, <<"running", "canceled">>}

\* C1: every change of a job's status is queued->running, queued->canceled,
\* running->completed, running->failed, running->timeout or
\* running->canceled.
C1_StatusTransitions ==
    [][\A j \in Ids :
          jobs'[j].status # jobs[j].status
              => <<jobs[j].status, jobs'[j].status>> \in StatusTransitions]_vars

\* A job canceled after it had started: the running->canceled transition.
C1_Witness ==
    \E j \in Ids : jobs[j].status = "canceled" /\ jobs[j].started_at # NoTime

\* C2: once a job's status is terminal, no step changes its status,
\* progress, phase or error.
C2_TerminalIsFinal ==
    [][\A j \in Ids :
          jobs[j].status \in Terminal
              => /\ jobs'[j].status = jobs[j].status
                 /\ jobs'[j].progress = jobs[j].progress
                 /\ jobs'[j].phase = jobs[j].phase
                 /\ jobs'[j].error = jobs[j].error]_vars

\* The unit of work of a canceled job raised, and _fail_job ran on the
\* terminal record.
C2_Witness ==
    \E j \in Ids : jobs[j].status = "canceled" /\ uow[j].stage = "raised"

\* C3 as claimed: once a job is terminal its record is the same, in every
\* field, in all later states (so two polls after the terminal transition
\* return equal records, and there is no second terminal transition).
C3_RecordFrozen ==
    [][\A j \in Ids : jobs[j].status \in Terminal => jobs'[j] = jobs[j]]_vars

\* C3 as amended: once a job is terminal its record is the same in every
\* field in all later states, except that the result of a canceled job may
\* change once, from none to a value.
C3_FrozenExceptResult ==
    [][\A j \in Ids :
          jobs[j].status \in Terminal
              => \/ jobs'[j] = jobs[j]
                 \/ /\ jobs[j].status = "canceled"
                    /\ jobs[j].result = None
                    /\ jobs'[j].result # None
                    /\ jobs'[j] = [jobs[j] EXCEPT !.result = jobs'[j].result]]_vars

\* A canceled job whose unit of work has returned, with the result attached
\* at a later time than the cancel.
C3_Witness ==
    \E j \in Ids : /\ jobs[j].status = "canceled"
                   /\ jobs[j].result # None
                   /\ uow[j].stage = "returned"
                   /\ jobs[j].finished_at < now

\* C4: while a job is running, no step lowers its progress.
C4_ProgressMonotone ==
    [][\A j \in Ids :
          jobs[j].status = "running" => jobs'[j].progress >= jobs[j].progress]_vars

\* A running job whose progress was raised by a tick and that is about to
\* be handed a lower value.
C4_Witness ==
    \E j \in Ids : /\ jobs[j].status = "running"
                   /\ jobs[j].progress = 99
                   /\ inbox[j] # <<>>
                   /\ Head(inbox[j]).type = "progress"
                   /\ Head(inbox[j]).value < jobs[j].progress

\* C5: cancel_job on a queued or running run_tests job sets, in one step,
\* status canceled, finished_at and the CANCELED_BY_USER error, makes
\* should_stop true (and it stays true), keeps progress, started_at,
\* result, kind, job_id and created_at, and neither waits for nor touches
\* the unit of work.
C5_CancelEffect ==
    [][\A j \in Ids :
          /\ ( /\ jobs[j].kind = "run_tests"
               /\ jobs[j].status \in {"queued", "running"}
               /\ cancel_job(j) )
                 => /\ jobs'[j].status = "canceled"
                    /\ jobs'[j].finished_at # NoTime
                    /\ jobs'[j].error # None
                    /\ jobs'[j].error.code = "CANCELED_BY_USER"
                    /\ should_stop(j)'
                    /\ jobs'[j].progress = jobs[j].progress
                    /\ jobs'[j].started_at = jobs[j].started_at
                    /\ jobs'[j].result = jobs[j].result
                    /\ jobs'[j].kind = jobs[j].kind
                    /\ jobs'[j].job_id = jobs[j].job_id
                    /\ jobs'[j].created_at = jobs[j].created_at
                    /\ resp'.answer = "ok"
                    /\ UNCHANGED <<pc, uow, inbox>>
          /\ should_stop(j) => should_stop(j)']_vars

\* The cancel has been answered while a batch of the job is still running.
C5_Witness ==
    \E j \in Ids : /\ jobs[j].status = "canceled"
                   /\ uow[j].stage = "batch"
                   /\ pc[j] = "work"
                   /\ resp = [op |-> "cancel", answer |-> "ok"]

\* C6: after a running job was canceled, its record changes at most once
\* more, and only in result, which goes from none to the value its unit of
\* work returned; status and error stay as cancel_job set them.
C6_CanceledStaysCanceled ==
    [][\A j \in Ids :
          (jobs[j].status = "canceled" /\ jobs[j].started_at # NoTime)
              => /\ jobs[j].error # None
                 /\ jobs[j].error.code = "CANCELED_BY_USER"
                 /\ \/ jobs'[j] = jobs[j]
                    \/ /\ jobs[j].result = None
                       /\ uow'[j].stage = "returned"
                       /\ jobs'[j] = [jobs[j] EXCEPT !.result =
                              tests_result(uow'[j], requests[j].payload.batch_size)]]_vars

\* A canceled job whose unit of work never saw the cancellation and ran
\* all its tests.
C6_Witness ==
    \E j \in Ids : /\ jobs[j].status = "canceled"
                   /\ jobs[j].error.code = "CANCELED_BY_USER"
                   /\ jobs[j].result # None
                   /\ ~jobs[j].result.canceled
                   /\ jobs[j].result.total = requests[j].payload.tests

\* C7: cancel_job on a queued run_tests job makes it canceled with
\* started_at none and progress 0, and from then on the record does not
\* change and the unit of work is never invoked.
C7_CancelQueued ==
    [][\A j \in Ids :
          /\ (jobs[j].kind = "run_tests" /\ jobs[j].status = "queued" /\ cancel_job(j))
                => /\ jobs'[j].status = "canceled"
                   /\ jobs'[j].started_at = NoTime
                   /\ jobs'[j].progress = 0
          /\ (jobs[j].status = "canceled" /\ jobs[j].started_at = NoTime)
                => /\ jobs'[j] = jobs[j]
                   /\ jobs[j].progress = 0
                   /\ uow[j] = UowInit
                   /\ uow'[j] = UowInit]_vars

\* The task of a job canceled while queued has run and ended.
C7_Witness ==
    \E j \in Ids : /\ jobs[j].status = "canceled"
                   /\ jobs[j].started_at = NoTime
                   /\ pc[j] = "done"

\* C8: cancel_job on a job whose kind is not run_tests is answered
\* invalid-operation whatever its status, on an unknown id not-found, and
\* in both cases no record and no task changes.
C8_CancelRejected ==
    [][\A id \in 1..(MaxJobs + 1) :
          ( /\ cancel_job(id)
            /\ id \in Ids => jobs[id].kind # "run_tests" )
              => /\ jobs' = jobs
                 /\ resp'.answer = IF id \in Ids THEN "invalid_operation" ELSE "not_found"
                 /\ UNCHANGED <<requests, pc, uow, inbox>>]_vars

\* A cancel was refused while a job of another kind and a run_tests job
\* were both running.
C8_Witness ==
    /\ resp = [op |-> "cancel", answer |-> "invalid_operation"]
    /\ \E j, k \in Ids : /\ jobs[j].kind # "run_tests"
                         /\ jobs[j].status = "running"
                         /\ jobs[k].kind = "run_tests"
                         /\ jobs[k].status = "running"

\* C9: cancel_job on a terminal run_tests job is answered ok and changes
\* no field; cancelling twice leaves the record of cancelling once.
C9_CancelIdempotent ==
    [][\A j \in Ids :
          jobs[j].kind = "run_tests"
              => /\ (jobs[j].status \in Terminal /\ cancel_job(j))
                       => (jobs' = jobs /\ resp'.answer = "ok")
                 /\ \A t1, t2 \in 1..MaxTime :
                       t1 <= t2 => cancel_record(cancel_record(jobs[j], t1), t2)
                                     = cancel_record(jobs[j], t1)]_vars

\* A cancel was answered ok on a completed run_tests job.
C9_Witness ==
    \E j \in Ids : /\ jobs[j].kind = "run_tests"
                   /\ jobs[j].status = "completed"
                   /\ jobs[j].finished_at < now
                   /\ resp = [op |-> "cancel", answer |-> "ok"]

\* C10: once run_flow_spec_tests has seen should_stop() true it launches no
\* further test; the result it returns has canceled true and lists exactly
\* the tests of the batches launched before, total being their number; and
\* the record then is canceled with that result.
C10_StopAtBoundary ==
    [][\A j \in Ids :
          uow'[j].canceled
              => /\ uow'[j].stage \in {"closing", "returned", "raised"}
                 /\ uow[j].canceled => uow'[j].results = uow[j].results
                 /\ uow'[j].stage = "returned"
                       => LET r == jobs'[j].result IN
                          /\ jobs'[j].status = "canceled"
                          /\ r = tests_result(uow'[j], requests[j].payload.batch_size)
                          /\ r.canceled
                          /\ r.total = Len(r.tests)
                          /\ r.tests = [i \in 1..r.total |-> i]
                          /\ r.total < requests[j].payload.tests
                          /\ r.total % Width(j) = 0]_vars

\* A job stopped after its first batch of two tests out of three.
C10_Witness ==
    \E j \in Ids : /\ uow[j].canceled
                   /\ uow[j].stage = "returned"
                   /\ jobs[j].status = "canceled"
                   /\ jobs[j].result # None
                   /\ jobs[j].result.total = 2
                   /\ requests[j].payload.tests = 3

C12_TimeoutIsFinal ==
    [][\A j \in Ids :
          /\ DeadlineExpires(j)
                => /\ jobs'[j].status = "timeout"
                   /\ jobs'[j].error # None
                   /\ jobs'[j].error.code = "EVAL_TIMEOUT"
                   /\ jobs'[j].finished_at = now
                   /\ uow'[j].stage = "abandoned"
          /\ uow[j].stage \in {"abandoned", "ended"}
                => /\ jobs[j].status = "timeout"
                   /\ jobs'[j] = jobs[j]]_vars

\* A timed-out job whose abandoned runner has posted a phase that the loop
\* is about to hand to _set_phase.
C12_Witness ==
    \E j \in Ids : /\ jobs[j].status = "timeout"
                   /\ uow[j].stage = "abandoned"
                   /\ inbox[j] # <<>>
                   /\ Head(inbox[j]).type = "phase"
                   /\ jobs[j].finished_at < now

\* C13 as claimed: for every kind, a running job eventually reaches a
\* terminal status even if its unit of work never returns, provided the
\* loop runs ready tasks and the deadline timer fires.
C13_DeadlineForEveryKind ==
    \A j \in 1..MaxJobs :
        [](j \in Ids /\ jobs[j].status = "running"
              => <>(j \in Ids /\ jobs[j].status \in Terminal))

\* C14 as claimed: a job whose payload fails validation goes from queued
\* to failed with INVALID_INPUT without the running transition: whenever
\* another coroutine can look at it, its started_at is none, its progress
\* 0 and its phase not the one the running transition sets.
C14_NoRunningTransition ==
    \A j \in Ids :
        ( /\ LoopIdle
          /\ jobs[j].kind \in {"scan", "run_tests"} \cup EvalKinds
          /\ ~PayloadValid(requests[j]) )
            => /\ jobs[j].status \in {"queued", "failed", "canceled"}
               /\ jobs[j].status = "failed" => jobs[j].error.code = "INVALID_INPUT"
               /\ jobs[j].started_at = NoTime
               /\ jobs[j].progress = 0
               /\ jobs[j].phase # "initializing"

\* C15: for a scan, run_tests or eval job whose payload fails validation
\* and that was not canceled first, the unit of work is never invoked, the
\* job is failed with INVALID_INPUT once its task has ended, and no other
\* coroutine ever finds it running.
C15_InvalidInputFails ==
    \A j \in Ids :
        ( /\ jobs[j].kind \in {"scan", "run_tests"} \cup EvalKinds
          /\ ~PayloadValid(requests[j]) )
            => /\ uow[j] = UowInit
               /\ inbox[j] = <<>>
               /\ LoopIdle => jobs[j].status \in {"queued", "failed", "canceled"}
               /\ jobs[j].status = "canceled" => jobs[j].started_at = NoTime
               /\ (pc[j] = "done" /\ jobs[j].status # "canceled")
                     => /\ jobs[j].status = "failed"
                        /\ jobs[j].error # None
                        /\ jobs[j].error.code = "INVALID_INPUT"
                        /\ jobs[j].result = None

\* An eval job with a sample_size below the schema's minimum has failed.
C15_Witness ==
    \E j \in Ids : /\ jobs[j].kind \in EvalKinds
                   /\ ~EvalPayloadValid(requests[j].payload)
                   /\ pc[j] = "done"
                   /\ jobs[j].status = "failed"
                   /\ jobs[j].error.code = "INVALID_INPUT"

\* C16 as claimed: when the unit of work of a running job raises before
\* its deadline, whatever the exception (a TimeoutError included), the job
\* becomes failed with JOB_FAILED and the exception's message, not timeout
\* and not completed.
C16_RaiseMeansFailed ==
    [][\A j \in Ids : \A exc \in Exceptions :
          (jobs[j].status = "running" /\ UnitRaises(j, exc))
              => /\ jobs'[j].status = "failed"
                 /\ jobs'[j].error # None
                 /\ jobs'[j].error.code = "JOB_FAILED"
                 /\ jobs'[j].error.message = exc]_vars

\* C17: in every state another coroutine can observe, a completed job has
\* progress 100, a result, no error and a finished_at; and a step that
\* makes a job failed, timeout or canceled leaves its progress as it was.
C17_NoPartialUpdate ==
    [][\A j \in Ids :
          /\ (LoopIdle' /\ jobs'[j].status = "completed")
                => /\ jobs'[j].progress = 100
                   /\ jobs'[j].result # None
                   /\ jobs'[j].error = None
                   /\ jobs'[j].finished_at # NoTime
          /\ ( /\ jobs'[j].status \in {"failed", "timeout", "canceled"}
               /\ jobs[j].status # jobs'[j].status )
                => jobs'[j].progress = jobs[j].progress]_vars

\* A job completed while a lower progress value it had posted was still
\* waiting for the loop.
C17_Witness ==
    \E j \in Ids : /\ jobs[j].status = "completed"
                   /\ jobs[j].progress = 100
                   /\ inbox[j] # <<>>
                   /\ Head(inbox[j]).type = "progress"
                   /\ Head(inbox[j]).value = 50

\* C18: always, a job has an error exactly when it is failed, timeout or
\* canceled, and the error's code goes with the status: INVALID_INPUT or
\* JOB_FAILED when failed, EVAL_TIMEOUT when timeout, CANCELED_BY_USER
\* when canceled.
C18_ErrorMatchesStatus ==
    \A j \in Ids :
        /\ jobs[j].error # None <=> jobs[j].status \in {"failed", "timeout", "canceled"}
        /\ jobs[j].status = "failed"
              => jobs[j].error.code \in {"INVALID_INPUT", "JOB_FAILED"}
        /\ jobs[j].status = "timeout" => jobs[j].error.code = "EVAL_TIMEOUT"
        /\ jobs[j].status = "canceled" => jobs[j].error.code = "CANCELED_BY_USER"

\* An eval job whose deadline expired.
C18_Witness ==
    \E j \in Ids : /\ jobs[j].status = "timeout"
                   /\ jobs[j].error # None
                   /\ uow[j].stage = "ended"

\* C19: always, a job with a result is completed or canceled, and a
\* completed job has a result; a queued, running, failed or timeout job
\* has none.
C19_ResultMatchesStatus ==
    \A j \in Ids :
        /\ jobs[j].result # None => jobs[j].status \in {"completed", "canceled"}
        /\ jobs[j].status = "completed" => jobs[j].result # None
        /\ jobs[j].status \in {"queued", "running", "failed", "timeout"}
              => jobs[j].result = None

\* A scan has completed with the mapping scan_pages returned.
C19_Witness ==
    \E j \in Ids : /\ jobs[j].kind = "scan"
                   /\ jobs[j].status = "completed"
                   /\ jobs[j].result = ScanResult

\* C20: always, a job has a finished_at exactly when its status is
\* terminal, and no step changes a finished_at that is set: not the one
\* that attaches a result to a canceled job, not a second cancel_job.
C20_FinishedAtOnce ==
    [][\A j \in Ids :
          /\ jobs'[j].finished_at # NoTime <=> jobs'[j].status \in Terminal
          /\ jobs[j].finished_at # NoTime
                => jobs'[j].finished_at = jobs[j].finished_at]_vars

\* A cancel was answered ok on a canceled job, at a later time than its
\* finished_at, and the job carries the result attached after the cancel.
C20_Witness ==
    \E j \in Ids : /\ jobs[j].status = "canceled"
                   /\ jobs[j].result # None
                   /\ jobs[j].finished_at < now
                   /\ resp = [op |-> "cancel", answer |-> "ok"]

\* C21: whatever value is posted, a running job's progress is within 0..99;
\* progress is 100 only on a completed job; and a progress tick applied to
\* a job that is not running (queued or terminal) changes nothing.
C21_ProgressClamped ==
    [][\A j \in Ids :
          /\ jobs'[j].status = "running" => jobs'[j].progress \in 0..99
          /\ jobs'[j].progress = 100 => jobs'[j].status = "completed"
          /\ (jobs[j].status # "running" /\ ApplyTick(j)) => jobs' = jobs
          /\ jobs[j].status # "running"
                => \A value \in {-5, 0, 50, 99, 100, 120} :
                       _set_progress(jobs[j], value) = jobs[j]]_vars

\* A running scan whose progress was clamped to 99 and that is about to be
\* handed a negative value.
C21_Witness ==
    \E j \in Ids : /\ jobs[j].kind = "scan"
                   /\ jobs[j].status = "running"
                   /\ jobs[j].progress = 99
                   /\ inbox[j] # <<>>
                   /\ Head(inbox[j]) = [type |-> "progress", value |-> -5]

\* C22: the updates a unit of work posts are applied in the order they
\* were posted: a post goes to the end of the job's queue and the loop
\* applies the oldest one; applied to a running job a phase update makes
\* the phase its label, applied to a terminal job it is dropped and the
\* phase stays the terminal label.
C22_PhaseInOrder ==
    [][\A j \in Ids :
          /\ Len(inbox'[j]) > Len(inbox[j])
                => SubSeq(inbox'[j], 1, Len(inbox[j])) = inbox[j]
          /\ Len(inbox'[j]) < Len(inbox[j])
                => /\ inbox'[j] = Tail(inbox[j])
                   /\ LET m == Head(inbox[j]) IN
                      /\ (m.type = "phase" /\ jobs[j].status = "running")
                            => jobs'[j] = [jobs[j] EXCEPT !.phase = m.phase]
                      /\ jobs[j].status \in Terminal
                            => /\ jobs'[j] = jobs[j]
                               /\ jobs'[j].phase = jobs[j].status
          /\ Len(inbox'[j]) = Len(inbox[j]) => inbox'[j] = inbox[j]]_vars

\* A running eval job with two different phase labels posted and not yet
\* applied.
C22_Witness ==
    \E j \in Ids : /\ jobs[j].status = "running"
                   /\ Len(inbox[j]) = 2
                   /\ inbox[j][1].type = "phase"
                   /\ inbox[j][2].type = "phase"
                   /\ inbox[j][1].phase # inbox[j][2].phase

\* C23: on a running job, progress updates applied in any order give
\* progress max(progress before, min(99, largest value)): two or three
\* updates give the same record in every order, and applying an update
\* twice is applying it once.
C23_ProgressOrderFree ==
    \A j \in Ids :
        jobs[j].status = "running"
            => \A v1, v2, v3 \in {-5, 0, 50, 98, 99, 100, 120} :
                  /\ _set_progress(_set_progress(jobs[j], v1), v2)
                        = _set_progress(_set_progress(jobs[j], v2), v1)
                  /\ _set_progress(_set_progress(jobs[j], v1), v1)
                        = _set_progress(jobs[j], v1)
                  /\ _set_progress(_set_progress(_set_progress(jobs[j], v1), v2), v3)
                        = [jobs[j] EXCEPT !.progress =
                              Max(jobs[j].progress, Min(99, Max(v1, Max(v2, v3))))]

\* A running job with two progress values posted in decreasing order and
\* not yet applied.
C23_Witness ==
    \E j \in Ids : /\ jobs[j].status = "running"
                   /\ Len(inbox[j]) = 2
                   /\ inbox[j][1].type = "progress"
                   /\ inbox[j][2].type = "progress"
                   /\ inbox[j][1].value > inbox[j][2].value
                   /\ inbox[j][2].value > jobs[j].progress

\* C24 as claimed: for start <= end in 0..100 the callback forwards exactly
\* start + floor(clip(v, 0, 100) * (end - start) / 100), a value within
\* start..end, non-decreasing in v, start for 0 and end for 100; and when
\* end < start every value is mapped to start.
C24_ScaledExactly ==
    LET start == mapped.start
        end == mapped.end
        clip(v) == Max(0, Min(v, 100))
    IN  (mapped.forwarded # -1 /\ start \in 0..100 /\ end \in 0..100)
            => /\ start <= end
                     => /\ mapped.forwarded
                              = start + ((clip(mapped.local_progress) * (end - start)) \div 100)
                        /\ mapped.forwarded \in start..end
                        /\ \A v \in LocalInputs :
                              v <= mapped.local_progress
                                  => _map_progress(start, end, v) <= mapped.forwarded
                        /\ _map_progress(start, end, 0) = start
                        /\ _map_progress(start, end, 100) = end
               /\ end < start => mapped.forwarded = start

\* C25: list_jobs(kind, status, limit) returns records that all pass the
\* kind and status filters given, each once, newest first by created_at,
\* min(limit, number of matching records) of them, no record left out
\* being newer than one returned; and it changes no record and nothing
\* else of the registry.
C25_ListFiltersSortsLimits ==
    [][resp'.op = "list" =>
          LET f == resp'.request
          IN  list_jobs(f.kind, f.status, f.limit)
              => LET a == resp'.answer
                     Match == {j \in Ids :
                                 /\ f.kind # NoFilter => jobs[j].kind = f.kind
                                 /\ f.status # NoFilter => jobs[j].status = f.status}
                     Returned == {a[i] : i \in 1..Len(a)}
                 IN  /\ Returned \subseteq Match
                     /\ Cardinality(Returned) = Len(a)
                     /\ Len(a) = Min(f.limit, Cardinality(Match))
                     /\ \A i, k \in 1..Len(a) :
                           i < k => jobs[a[i]].created_at >= jobs[a[k]].created_at
                     /\ \A j \in Match \ Returned : \A i \in 1..Len(a) :
                           jobs[a[i]].created_at >= jobs[j].created_at
                     /\ jobs' = jobs
                     /\ UNCHANGED <<requests, pc, uow, inbox, cancel_point>>]_vars

\* Two running jobs created at different times were listed with limit 1:
\* the newer one alone was returned.
C25_Witness ==
    /\ Len(jobs) = 2
    /\ jobs[1].created_at < jobs[2].created_at
    /\ jobs[1].status = "running"
    /\ jobs[2].status = "running"
    /\ resp.op = "list"
    /\ resp.request.limit = 1
    /\ resp.answer = <<2>>

\* C26: jobs_lock is never held across a suspension point: at every point
\* where the event loop can take up another coroutine the lock is free,
\* so a get_job call for any id acquires it and returns, also while a job
\* is running, hung or being canceled; get_job answers not-found for an
\* unknown id and changes nothing.
C26_LockFreeAtEverySuspension ==
    /\ [](/\ lock = "free"
          /\ LoopIdle => \A job_id \in 1..(MaxJobs + 1) : ENABLED get_job(job_id))
    /\ [][\A job_id \in 1..(MaxJobs + 1) :
             get_job(job_id)
                 => /\ resp'.answer = IF job_id \in Ids THEN "ok" ELSE "not_found"
                    /\ UNCHANGED <<jobs, requests, pc, uow, inbox, cancel_point, lock>>]_vars

\* A poll was answered after the cancel request of a job whose unit of
\* work is still running.
C26_Witness ==
    \E j \in Ids :
        /\ jobs[j].status = "canceled"
        /\ pc[j] = "work"
        /\ uow[j].stage = "batch"
        /\ resp = [op |-> "get", answer |-> "ok"]

\* C27: every read of the registry or of a record's fields is made by a
\* holder of jobs_lock: the lock is held when the head of the run_tests
\* loop evaluates should_stop(), and when list_jobs sorts the records it
\* has found.
C27_EveryAccessUnderLock ==
    [][/\ \A j \in Ids :
            ( /\ TestsBegin(j) \/ BatchDone(j)
              /\ Len(uow'[j].results) < requests[j].payload.tests )
                => should_stop_lock # "free"
       /\ (resp'.op = "list" /\ resp' # resp /\ Len(resp'.answer) > 0)
            => list_sort_lock # "free"]_vars

\* C28: create_job never fails, whatever the kind and the payload: it can
\* be called at every point where the loop takes up a request, it adds
\* exactly one record, under a job_id no existing record has, with status
\* queued, progress 0 and phase, started_at, finished_at, result and
\* error all null, it changes no other record, and the status returned to
\* the caller is queued.
C28_CreateAddsOneQueuedRecord ==
    /\ [](LoopIdle => \A r \in Requests : ENABLED create_job(r.kind, r.payload))
    /\ [][\A r \in Requests :
             (requests' # requests /\ create_job(r.kind, r.payload))
                 => LET new == jobs'[Len(jobs')]
                    IN  /\ Len(jobs') = Len(jobs) + 1
                        /\ \A i \in Ids : /\ jobs'[i] = jobs[i]
                                          /\ jobs[i].job_id # new.job_id
                        /\ new.kind = r.kind
                        /\ new.status = "queued"
                        /\ new.progress = 0
                        /\ new.phase = NoPhase
                        /\ new.started_at = NoTime
                        /\ new.finished_at = NoTime
                        /\ new.result = None
                        /\ new.error = None
                        /\ resp' = [op |-> "create", answer |-> "queued"]]_vars

\* A second job, with a payload that will not validate, was created while
\* the first was running.
C28_Witness ==
    /\ Len(jobs) = 2
    /\ jobs[1].status = "running"
    /\ jobs[2].status = "queued"
    /\ ~PayloadValid(requests[2])
    /\ resp = [op |-> "create", answer |-> "queued"]

\* C29: every created job leaves status queued, waiting for no other job:
\* when its _run_job task is scheduled fairly it becomes running, unless it
\* was canceled first, however many other jobs are running or hung.
C29_QueuedJobStarts ==
    \A j \in 1..MaxJobs :
        (j \in Ids /\ jobs[j].status = "queued")
            ~> (j \in Ids /\ jobs[j].status # "queued")

\* The second job is running while the first, started before it, is still
\* at work.
C29_Witness ==
    /\ Len(jobs) = 2
    /\ jobs[1].status = "running"
    /\ pc[1] = "work"
    /\ jobs[2].status = "running"
    /\ jobs[2].started_at >= jobs[1].started_at

\* C30: no record is ever removed from the registry, and the job_id, the
\* kind and the created_at of a record never change; so get_job on an id
\* that create_job has returned never answers not-found afterwards.
C30_RecordsStay ==
    [][/\ Len(jobs') >= Len(jobs)
       /\ \A j \in Ids : /\ jobs'[j].job_id = jobs[j].job_id
                         /\ jobs'[j].kind = jobs[j].kind
                         /\ jobs'[j].created_at = jobs[j].created_at
       /\ \A job_id \in 1..(MaxJobs + 1) :
            (get_job(job_id) /\ \E j \in Ids : jobs[j].job_id = job_id)
                => resp'.answer = "ok"]_vars

\* A job canceled and finished at a later time than it was created is
\* polled, and found.
C30_Witness ==
    \E j \in Ids :
        /\ jobs[j].status = "canceled"
        /\ pc[j] = "done"
        /\ jobs[j].finished_at > jobs[j].created_at
        /\ resp = [op |-> "get", answer |-> "ok"]

C32_CanceledOnlyByCancelJob ==
    /\ [](\A j \in Ids :
             jobs[j].status = "canceled"
                 => jobs[j].kind = "run_tests" /\ cancel_point[j] >= 0)
    /\ [][\A j \in Ids :
             /\ (jobs[j].status # "canceled" /\ jobs'[j].status = "canceled")
                   => /\ cancel_job(j)
                      /\ jobs[j].status \in {"queued", "running"}
             /\ (jobs[j].status = "running" /\ uow'[j].stage = "returned")
                   => jobs'[j].status = "completed"]_vars

\* A run_tests job canceled by cancel_job after its first tests, whose
\* unit of work then saw should_stop() and returned a mapping saying
\* canceled.
C32_Witness ==
    \E j \in Ids :
        /\ jobs[j].status = "canceled"
        /\ cancel_point[j] >= 1
        /\ uow[j].stage = "returned"
        /\ ResultCanceled(jobs[j].result)

\* C33: a batch launched before a cancel is never interrupted, and all its
\* tests are counted: the tests that come back are appended whatever the
\* status of the record.  So a running run_tests job to which cancel_job
\* is applied after its last batch was launched is canceled with
\* CANCELED_BY_USER, and once its unit of work has returned its result has
\* canceled false and a total equal to the number of submitted tests.
C33_LastBatchRunsToItsEnd ==
    /\ [][\A j \in Ids :
             BatchDone(j)
                 => /\ Len(uow'[j].results)
                         = Min(Len(uow[j].results) + Width(j), requests[j].payload.tests)
                    /\ uow'[j].results = [i \in 1..Len(uow'[j].results) |-> i]]_vars
    /\ [](\A j \in Ids :
             ( /\ jobs[j].kind = "run_tests"
               /\ jobs[j].started_at # NoTime
               /\ cancel_point[j] >= 0
               /\ cancel_point[j] >= 1 \/ ~playwright
               /\ cancel_point[j] + Width(j) >= requests[j].payload.tests )
                 => ( /\ jobs[j].status = "canceled"
                      /\ jobs[j].error # None
                      /\ jobs[j].error.code = "CANCELED_BY_USER"
                      /\ uow[j].stage = "returned"
                            => ( /\ jobs[j].result # None
                                 /\ ~jobs[j].result.canceled
                                 /\ jobs[j].result.total = requests[j].payload.tests
                                 /\ Len(jobs[j].result.tests)
                                       = requests[j].payload.tests ) ))

\* Three tests in batches of two, canceled while the third test, the last
\* batch, was in flight: the result has all three and canceled false.
C33_Witness ==
    \E j \in Ids :
        /\ playwright
        /\ requests[j].kind = "run_tests"
        /\ requests[j].payload.tests = 3
        /\ requests[j].payload.batch_size = 2
        /\ cancel_point[j] = 2
        /\ jobs[j].status = "canceled"
        /\ uow[j].stage = "returned"
        /\ jobs[j].result # None
        /\ jobs[j].result.total = 3
        /\ ~jobs[j].result.canceled

\* C34: a job has status timeout only if it is an evaluation; a scan, a
\* run_tests or a report_pdf job never becomes timeout, no deadline is
\* ever due for it, and while the unit of work of a scan or run_tests job
\* has not come back the job stays running, whatever time passes, unless
\* it is a run_tests job and cancel_job is applied to it.
C34_TimeoutOnlyForEvals ==
    /\ [](\A j \in Ids :
             /\ jobs[j].status = "timeout" => jobs[j].kind \in EvalKinds
             /\ jobs[j].kind \notin EvalKinds => ~ENABLED DeadlineExpires(j))
    /\ [][\A j \in Ids :
             ( /\ jobs[j].kind \in {"scan", "run_tests"}
               /\ jobs[j].status = "running"
               /\ pc[j] = "work"
               /\ jobs'[j].status # "running" )
                 => \/ uow'[j].stage \in {"returned", "raised"}
                    \/ /\ jobs[j].kind = "run_tests"
                       /\ cancel_job(j)
                       /\ jobs'[j].status = "canceled"]_vars

\* A scan still running, its unit of work still at work, at the last hour
\* of the clock and later than its start.
C34_Witness ==
    \E j \in Ids :
        /\ jobs[j].kind = "scan"
        /\ jobs[j].status = "running"
        /\ pc[j] = "work"
        /\ uow[j].stage = "busy"
        /\ now = MaxTime
        /\ jobs[j].started_at < now

\* C35: _fail_job and _timeout_job are applied only to a job that is
\* running or canceled, never to a completed, failed or timeout one, and
\* only when jobs_lock is free; a canceled record is left as it is and a
\* running one becomes failed or timeout.
C35_FailOnlyRunningOrCanceled ==
    [][\A j \in Ids :
          ( \/ \E exc \in Exceptions : UnitRaises(j, exc)
            \/ DeadlineExpires(j)
            \/ Dispatch(j) /\ pc'[j] = "done" )
              => /\ jobs[j].status \in {"running", "canceled"}
                 /\ lock = "free"
                 /\ jobs[j].status = "canceled" => jobs'[j] = jobs[j]
                 /\ jobs[j].status = "running" => jobs'[j].status \in {"failed", "timeout"}]_vars

\* The unit of work of a run_tests job raised after some of its tests had
\* finished and after the job was canceled: _fail_job found the record
\* canceled.
C35_Witness ==
    \E j \in Ids :
        /\ jobs[j].kind = "run_tests"
        /\ jobs[j].status = "canceled"
        /\ uow[j].stage = "raised"
        /\ Len(uow[j].results) >= 1
        /\ cancel_point[j] >= 0

\* C36: an operation bound to one job (cancel_job on its id, the steps of
\* its _run_job task and of its unit of work, its progress and phase
\* ticks, its _fail_job and _timeout_job) leaves every field of the record
\* of every other job as it was, however the jobs are interleaved.
C36_OtherRecordsUntouched ==
    [][jobs' # jobs =>
          \A j \in Ids :
              ( \/ cancel_job(j)
                \/ RunStart(j)
                \/ Dispatch(j)
                \/ TestsBegin(j)
                \/ BatchDone(j)
                \/ TestsClose(j)
                \/ ApplyTick(j)
                \/ UnitReturns(j)
                \/ \E exc \in Exceptions : UnitRaises(j, exc)
                \/ DeadlineExpires(j) )
                  => /\ Len(jobs') = Len(jobs)
                     /\ \A k \in Ids \ {j} : jobs'[k] = jobs[k]]_vars

\* Two jobs running side by side: a progress tick has raised the first
\* record to 50 and the second is as its start left it.
C36_Witness ==
    /\ Len(jobs) = 2
    /\ jobs[1].status = "running"
    /\ jobs[1].progress = 50
    /\ jobs[2].status = "running"
    /\ jobs[2].progress = 5
    /\ pc[2] = "work"

\* C37: a job of kind report_pdf, which create_job accepts and for which
\* _run_job has no unit of work, takes the running transition (started_at
\* set, progress 5) and then ends failed with error code JOB_FAILED: it is
\* never completed, canceled or timeout, it is running only until the
\* dispatcher has looked at its kind, and it does become failed.
C37_ReportPdfFails ==
    /\ [](\A j \in Ids :
             jobs[j].kind = "report_pdf"
                 => /\ jobs[j].status \in {"queued", "running", "failed"}
                    /\ jobs[j].status = "running"
                          => (pc[j] = "dispatch" /\ jobs[j].progress = 5)
                    /\ jobs[j].status = "failed"
                          => ( /\ jobs[j].error # None
                               /\ jobs[j].error.code = "JOB_FAILED"
                               /\ jobs[j].started_at # NoTime
                               /\ jobs[j].finished_at >= jobs[j].started_at
                               /\ jobs[j].result = None ))
    /\ [][\A j \in Ids :
             (jobs[j].kind = "report_pdf" /\ RunStart(j))
                 => /\ jobs'[j].status = "running"
                    /\ jobs'[j].started_at = now
                    /\ jobs'[j].progress = 5]_vars
    /\ \A j \in 1..MaxJobs :
          (j \in Ids /\ jobs[j].kind = "report_pdf")
              ~> (j \in Ids /\ jobs[j].status = "failed")

\* A report_pdf job that was started and has failed with JOB_FAILED.
C37_Witness ==
    \E j \in Ids :
        /\ jobs[j].kind = "report_pdf"
        /\ jobs[j].status = "failed"
        /\ jobs[j].error # None
        /\ jobs[j].error.code = "JOB_FAILED"
        /\ jobs[j].started_at # NoTime
        /\ jobs[j].progress = 5
====
